---- MODULE Spec2Model ----
(***************************************************************************)
(* helm-exporter (src/main.go): the registry of per-namespace Helm         *)
(* clients, the namespace informer that maintains it, and the Prometheus   *)
(* collector that lists the releases of every registered namespace on each *)
(* scrape.                                                                 *)
(***************************************************************************)
EXTENDS Integers, Sequences, FiniteSets, TLC

\* ---------------------------------------------------------------- bounds
NumNamespaces == 2      \* namespaces that exist in the cluster
MaxReleases == 2        \* releases installed in the cluster at one time
MaxEvents == 2          \* connect attempts and informer events handled

\* ------------------------------------------------------------ vocabulary
Digits == <<"0", "1", "2", "3", "4", "5", "6", "7", "8", "9">>

RECURSIVE FormatInt(_)
\* strconv.FormatInt(i, 10)
FormatInt(i) ==
    IF i < 0 THEN "-" \o FormatInt(0 - i)
    ELSE IF i < 10 THEN Digits[i + 1]
    ELSE FormatInt(i \div 10) \o Digits[(i % 10) + 1]

NamespaceIds == 1..NumNamespaces
NsName(i) == "ns" \o FormatInt(i)
Namespaces == {NsName(i) : i \in NamespaceIds}

\* release.Status.String() of helm.sh/helm/v3/pkg/release, plus one string
\* the table below does not know
StatusStrings ==
    <<"unknown", "deployed", "uninstalled", "superseded", "failed",
      "uninstalling", "pending-install", "pending-upgrade",
      "pending-rollback", "pending">>

\* as statusCodeMap, the codes numbered in the order of the table
statusCodeMapIota ==
    [s \in {StatusStrings[i] : i \in 1..9} |->
        (CHOOSE i \in 1..9 : StatusStrings[i] = s) - 1]

\* statusCodeMap
statusCodeMap ==
    [s \in {"unknown", "deployed", "uninstalled", "superseded", "failed",
            "uninstalling", "pending-install", "pending-upgrade",
            "pending-rollback"} |->
        CASE s = "unknown" -> 0
          [] s = "deployed" -> 1
          [] s = "uninstalled" -> 2
          [] s = "superseded" -> 3
          [] s = "failed" -> 0 - 1
          [] s = "uninstalling" -> 5
          [] s = "pending-install" -> 6
          [] s = "pending-upgrade" -> 7
          [] s = "pending-rollback" -> 8]

\* statusCodeMap[key]: a Go map read of a missing key yields the zero value
StatusCode(s) == IF s \in DOMAIN statusCodeMap THEN statusCodeMap[s] ELSE 0

\* the releases the cluster may hold: one per status string
ReleaseIds == 1..Len(StatusStrings)

\* the releases installed and upgraded while the exporter runs: one deployed,
\* one failed
CommonReleaseIds == {2, 5}

ChartNames == <<"nginx", "redis">>
ChartVersions == <<"1.2.0", "0.9.1">>
AppVersions == <<"1.21", "6.2">>

\* release names, written so that their lexicographic order is that of the ids
ReleaseName(i) == "rel" \o (IF i < 10 THEN "0" ELSE "") \o FormatInt(i)

NameIndex(name) == CHOOSE i \in ReleaseIds : ReleaseName(i) = name

\* a *release.Release as list.Run() returns it; lastDeployed is
\* item.Info.LastDeployed.Unix(), revision is item.Version
Release(i, ns) ==
    [name |-> ReleaseName(i),
     namespace |-> ns,
     chart |-> ChartNames[(i % 2) + 1],
     version |-> ChartVersions[(i % 2) + 1],
     appVersion |-> AppVersions[(i % 2) + 1],
     revision |-> (i % 3) + 1,
     status |-> StatusStrings[i],
     lastDeployed |-> 3 + i]

NoClient == [id |-> 0, namespace |-> ""]

\* an *action.Configuration initialised for one namespace; id tells the
\* objects apart
Client(id, ns) == [id |-> id, namespace |-> ns]

VARIABLES
    namespaces,         \* the -namespaces flag, split at the commas
    infoMetric,         \* the -info-metric flag
    timestampMetric,    \* the -timestamp-metric flag
    fetchLatest,        \* the -latest-chart-version flag
    mainpc,             \* where main() is
    informerpc,         \* where the informer goroutine is
    connecting,         \* the namespace connect() is initialising a client for
    clients,            \* the registry: namespace -> client
    calls,              \* the connect and remove calls completed so far
    releases,           \* the releases stored in the cluster
    collectpc,          \* where Collect is
    snapshot,           \* Collect: the map clients.Items() returned
    pending,            \* Collect: the namespaces still to iterate
    listed,             \* Collect: what list.Run() returned, per namespace
    ch,                 \* Collect: the samples sent to the channel
    snapCalls,          \* Len(calls) when clients.Items() was called
    previous,           \* the samples of the scrape before, while comparable
    quiet               \* no event or cluster change since Collect began

flagVars == <<namespaces, infoMetric, timestampMetric, fetchLatest>>
procVars == <<mainpc, informerpc, connecting>>
registryVars == <<clients, calls>>
clusterVars == <<releases>>
collectVars == <<collectpc, snapshot, pending, listed, ch, snapCalls>>
vars == <<flagVars, procVars, registryVars, clusterVars, collectVars, previous, quiet>>

NoPrevious == [valid |-> FALSE, samples |-> <<>>, failed |-> {}]
NotListed == [st |-> "none", items |-> <<>>, latest |-> <<>>]
ListError == [st |-> "err", items |-> <<>>, latest |-> <<>>]

\* the flag default "" selects the informer; otherwise strings.Split gives
\* the namespaces to connect to
NamespaceLists ==
    UNION {[1..n -> Namespaces] : n \in 0..MaxEvents}

\* the exporter before main() runs
InitExporter ==
    /\ namespaces \in NamespaceLists
    /\ infoMetric \in BOOLEAN
    /\ timestampMetric \in BOOLEAN
    /\ fetchLatest \in BOOLEAN
    /\ mainpc = "start"
    /\ informerpc = "none"
    /\ connecting = ""
    /\ clients = [ns \in Namespaces |-> NoClient]
    /\ calls = <<>>
    /\ collectpc = "idle"
    /\ snapshot = [ns \in Namespaces |-> NoClient]
    /\ pending = {}
    /\ listed = [ns \in Namespaces |-> NotListed]
    /\ ch = <<>>
    /\ snapCalls = 0
    /\ previous = NoPrevious
    /\ quiet = FALSE

\* the exporter starts in a cluster without releases
Init ==
    /\ InitExporter
    /\ releases = {}

\* a watcher event or a change of the cluster: the scrape before is no
\* longer comparable with the next one
Disturb ==
    /\ previous' = NoPrevious
    /\ quiet' = FALSE

\* ------------------------------------------------------------------ main
\* main(): the flag is empty, start the informer goroutine and serve
MainInformer ==
    /\ mainpc = "start"
    /\ namespaces = <<>>
    /\ informerpc' = "init"
    /\ mainpc' = "serve"
    /\ UNCHANGED <<flagVars, connecting, registryVars, clusterVars,
                   collectVars, previous, quiet>>

\* main(): the flag names namespaces, connect to each in turn
MainStatic ==
    /\ mainpc = "start"
    /\ namespaces # <<>>
    /\ mainpc' = "connect"
    /\ UNCHANGED <<flagVars, informerpc, connecting, registryVars,
                   clusterVars, collectVars, previous, quiet>>

\* main(): the next iteration of the loop over the listed namespaces calls
\* connect
MainConnect ==
    /\ mainpc = "connect"
    /\ connecting = ""
    /\ Len(calls) < Len(namespaces)
    /\ connecting' = namespaces[Len(calls) + 1]
    /\ UNCHANGED <<flagVars, mainpc, informerpc, registryVars, clusterVars,
                   collectVars, previous, quiet>>

\* as MainServe, the informer started after the loop as well
MainServeWatches ==
    /\ mainpc = "connect"
    /\ connecting = ""
    /\ Len(calls) = Len(namespaces)
    /\ mainpc' = "serve"
    /\ informerpc' = "init"
    /\ UNCHANGED <<flagVars, connecting, registryVars, clusterVars,
                   collectVars, previous, quiet>>

\* main(): the loop is over, register the handlers and serve
MainServe ==
    /\ mainpc = "connect"
    /\ connecting = ""
    /\ Len(calls) = Len(namespaces)
    /\ mainpc' = "serve"
    /\ UNCHANGED <<flagVars, informerpc, connecting, registryVars,
                   clusterVars, collectVars, previous, quiet>>

\* --------------------------------------------------------------- connect
\* as Set, an entry already present kept (SetIfAbsent)
SetIfAbsent(ns, client) ==
    IF clients[ns] = NoClient THEN [clients EXCEPT ![ns] = client] ELSE clients

\* clients.Set(namespace, actionConfig)
Set(ns, client) == [clients EXCEPT ![ns] = client]

\* as Remove, the entry left in place
RemoveNothing(ns) == clients

\* as Remove, the whole registry cleared
RemoveAll(ns) == [n \in Namespaces |-> NoClient]

\* clients.Remove(namespace)
Remove(ns) == [clients EXCEPT ![ns] = NoClient]

\* as Registered, the client registered whatever Init returned
RegisteredAlways(ns, client, err) == Set(ns, client)

\* as Registered, the entry of the namespace dropped when Init fails
RegisteredOrDropped(ns, client, err) ==
    IF err THEN Remove(ns) ELSE Set(ns, client)

\* connect(): the registry after actionConfig.Init returned; err tells
\* whether it returned an error
Registered(ns, client, err) ==
    IF err THEN clients ELSE Set(ns, client)

\* connect(): actionConfig.Init returned nil, the client is registered
ConnectOK ==
    /\ mainpc \in {"connect", "serve"}
    /\ connecting # ""
    /\ clients' = Registered(connecting, Client(Len(calls) + 1, connecting),
                             FALSE)
    /\ calls' = Append(calls, [op |-> "connect", ns |-> connecting, ok |-> TRUE])
    /\ connecting' = ""
    /\ Disturb
    /\ UNCHANGED <<flagVars, mainpc, informerpc, clusterVars, collectVars>>

\* connect(): actionConfig.Init returned an error, a warning is logged
ConnectFail ==
    /\ mainpc \in {"connect", "serve"}
    /\ connecting # ""
    /\ clients' = Registered(connecting, Client(Len(calls) + 1, connecting),
                             TRUE)
    /\ calls' = Append(calls, [op |-> "connect", ns |-> connecting, ok |-> FALSE])
    /\ connecting' = ""
    /\ Disturb
    /\ UNCHANGED <<flagVars, mainpc, informerpc, clusterVars, collectVars>>

\* -------------------------------------------------------------- informer
\* informer(): Init and KubernetesClientSet returned nil, the handlers are
\* registered and informer.Run delivers events
InformerRun ==
    /\ mainpc = "serve"
    /\ informerpc = "init"
    /\ informerpc' = "run"
    /\ UNCHANGED <<flagVars, mainpc, connecting, registryVars, clusterVars,
                   collectVars, previous, quiet>>

\* as InformerFatal, the error logged and informer() returning
InformerFatalReturns ==
    /\ mainpc = "serve"
    /\ informerpc = "init"
    /\ informerpc' = "exited"
    /\ UNCHANGED <<flagVars, mainpc, connecting, registryVars, clusterVars,
                   collectVars, previous, quiet>>

\* informer(): Init or KubernetesClientSet returned an error, log.Fatal
\* ends the process
InformerFatal ==
    /\ mainpc = "serve"
    /\ informerpc = "init"
    /\ informerpc' = "exited"
    /\ mainpc' = "exited"
    /\ UNCHANGED <<flagVars, connecting, registryVars, clusterVars,
                   collectVars, previous, quiet>>

\* as AddFunc, the client registered before actionConfig.Init has run
AddFuncRegistersFirst(ns) ==
    /\ mainpc = "serve"
    /\ informerpc = "run"
    /\ connecting = ""
    /\ Len(calls) < MaxEvents
    /\ connecting' = ns
    /\ clients' = Set(ns, Client(Len(calls) + 1, ns))
    /\ Disturb
    /\ UNCHANGED <<flagVars, mainpc, informerpc, calls, clusterVars,
                   collectVars>>

\* AddFunc: the handler calls connect with the name of the added namespace
AddFunc(ns) ==
    /\ mainpc = "serve"
    /\ informerpc = "run"
    /\ connecting = ""
    /\ Len(calls) < MaxEvents
    /\ connecting' = ns
    /\ UNCHANGED <<flagVars, mainpc, informerpc, registryVars, clusterVars,
                   collectVars, previous, quiet>>

\* DeleteFunc: the handler removes the namespace from the registry
DeleteFunc(ns) ==
    /\ mainpc = "serve"
    /\ informerpc = "run"
    /\ connecting = ""
    /\ Len(calls) < MaxEvents
    /\ clients' = Remove(ns)
    /\ calls' = Append(calls, [op |-> "remove", ns |-> ns, ok |-> TRUE])
    /\ Disturb
    /\ UNCHANGED <<flagVars, procVars, clusterVars, collectVars>>

\* --------------------------------------------------------------- cluster
\* helm install: a release appears in a namespace
Install(ids) ==
    /\ mainpc = "serve"
    /\ Cardinality(releases) < MaxReleases
    /\ \E i \in ids, ns \in Namespaces :
        /\ Release(i, ns) \notin releases
        /\ releases' = releases \cup {Release(i, ns)}
    /\ Disturb
    /\ UNCHANGED <<flagVars, procVars, registryVars, collectVars>>

\* helm uninstall: a release disappears
Uninstall ==
    /\ mainpc = "serve"
    /\ \E r \in releases : releases' = releases \ {r}
    /\ Disturb
    /\ UNCHANGED <<flagVars, procVars, registryVars, collectVars>>

\* ------------------------------------------------------------- collector
RECURSIVE SortByName(_)
\* releaseutil.SortByName, the order list.Run() returns the releases in
SortByName(rs) ==
    IF rs = {} THEN <<>>
    ELSE LET first == CHOOSE r \in rs :
                        \A q \in rs : NameIndex(r.name) <= NameIndex(q.name)
         IN <<first>> \o SortByName(rs \ {first})

\* list.Run() of a client: the releases stored in the client's namespace
ListRun(client) ==
    SortByName({r \in releases : r.namespace = client.namespace})

\* registries.HelmRegistries.GetLatestVersionFromHelm: the latest version a
\* registry knows, "" when it knows none or the lookup fails
LatestVersions == {"", "2.0.0"}

\* as Updated, without the factor
UpdatedSeconds(item) == item.lastDeployed

\* item.Info.LastDeployed.Unix() * 1000
Updated(item) == item.lastDeployed * 1000

\* the label values of the info and the timestamp metric
StatsLabelValues(item, latestVersion) ==
    <<item.chart, item.name, item.version, item.appVersion,
      FormatInt(Updated(item)), item.namespace, latestVersion>>

RevisionsMetric(item) ==
    [name |-> "helm_chart_all_releases_total",
     value |-> item.revision,
     labels |-> <<item.chart, item.name, item.namespace>>]

InfoMetric(item, latestVersion) ==
    [name |-> "helm_chart_info",
     value |-> StatusCode(item.status),
     labels |-> StatsLabelValues(item, latestVersion)]

TimestampMetric(item, latestVersion) ==
    [name |-> "helm_chart_timestamp",
     value |-> Updated(item),
     labels |-> StatsLabelValues(item, latestVersion)]

\* as CollectItem, the timestamp sample sent inside the info branch
CollectItemNested(item, latestVersion, info, timestamp) ==
    <<RevisionsMetric(item)>>
    \o (IF info
        THEN <<InfoMetric(item, latestVersion)>>
             \o (IF timestamp THEN <<TimestampMetric(item, latestVersion)>>
                 ELSE <<>>)
        ELSE <<>>)

\* as CollectItem, the revision sample sent only with the info metric
CollectItemGated(item, latestVersion, info, timestamp) ==
    (IF info THEN <<RevisionsMetric(item), InfoMetric(item, latestVersion)>>
     ELSE <<>>)
    \o (IF timestamp THEN <<TimestampMetric(item, latestVersion)>> ELSE <<>>)

\* the body of the loop over items: the samples sent for one release when
\* *infoMetric is info and *timestampMetric is timestamp
CollectItem(item, latestVersion, info, timestamp) ==
    <<RevisionsMetric(item)>>
    \o (IF info THEN <<InfoMetric(item, latestVersion)>> ELSE <<>>)
    \o (IF timestamp THEN <<TimestampMetric(item, latestVersion)>> ELSE <<>>)

RECURSIVE CollectItems(_, _, _, _)
\* the loop over items; latest[i] is what the resolver answered for items[i]
CollectItems(items, latest, info, timestamp) ==
    IF items = <<>> THEN <<>>
    ELSE CollectItem(Head(items), Head(latest), info, timestamp)
         \o CollectItems(Tail(items), Tail(latest), info, timestamp)

\* as AfterListError, with return in place of continue
AfterListErrorReturn(ns) == {}

\* the clients left to iterate after list.Run() failed for one: continue
AfterListError(ns) == pending \ {ns}

\* a sample without its latestVersion label value
IgnoreLatest(s) ==
    IF Len(s.labels) = 7 THEN [s EXCEPT !.labels[7] = ""] ELSE s

\* the samples a scrape sent without the latestVersion values: how many
\* times each was sent
SampleBag(sent) ==
    [s \in {IgnoreLatest(sent[i]) : i \in 1..Len(sent)} |->
        Cardinality({i \in 1..Len(sent) : IgnoreLatest(sent[i]) = s})]

\* the namespaces whose listing failed in a scrape
Failed(l) == {ns \in Namespaces : l[ns].st = "err"}

\* the keys of a registry or of a copy of it
Keys(registry) == {ns \in Namespaces : registry[ns] # NoClient}

\* clients.Items(): what is copied for the shard that holds ns; the map
\* copies its shards one after the other, each under the shard's own lock
ShardItems(ns) == clients[ns]

\* Collect: where Collect is once the shards in left remain to copy
AfterCopy(left) == IF left = {} THEN "range" ELSE "items"

\* Collect: the namespaces still to copy or, all copied, still to iterate
StillPending(copy, left) == IF left = {} THEN Keys(copy) ELSE left

\* as CollectBegin, the samples of the scrape before left in the channel
CollectBeginKeeps ==
    /\ mainpc = "serve"
    /\ collectpc \in {"idle", "done"}
    /\ \E ns \in Namespaces :
        LET copy == [n \in Namespaces |->
                        IF n = ns THEN ShardItems(n) ELSE NoClient]
            left == Namespaces \ {ns}
        IN /\ snapshot' = copy
           /\ pending' = StillPending(copy, left)
           /\ collectpc' = AfterCopy(left)
    /\ listed' = [ns \in Namespaces |-> NotListed]
    /\ ch' = ch
    /\ snapCalls' = Len(calls)
    /\ previous' = IF collectpc = "done" /\ quiet
                   THEN [valid |-> TRUE,
                         samples |-> SampleBag(ch),
                         failed |-> Failed(listed)]
                   ELSE NoPrevious
    /\ quiet' = TRUE
    /\ UNCHANGED <<flagVars, procVars, registryVars, clusterVars>>

\* Collect: clients.Items() starts to copy the registry, one shard first
CollectBegin ==
    /\ mainpc = "serve"
    /\ collectpc \in {"idle", "done"}
    /\ \E ns \in Namespaces :
        LET copy == [n \in Namespaces |->
                        IF n = ns THEN ShardItems(n) ELSE NoClient]
            left == Namespaces \ {ns}
        IN /\ snapshot' = copy
           /\ pending' = StillPending(copy, left)
           /\ collectpc' = AfterCopy(left)
    /\ listed' = [ns \in Namespaces |-> NotListed]
    /\ ch' = <<>>
    /\ snapCalls' = Len(calls)
    /\ previous' = IF collectpc = "done" /\ quiet
                   THEN [valid |-> TRUE,
                         samples |-> SampleBag(ch),
                         failed |-> Failed(listed)]
                   ELSE NoPrevious
    /\ quiet' = TRUE
    /\ UNCHANGED <<flagVars, procVars, registryVars, clusterVars>>

\* Collect: clients.Items() copies another shard; after the last one the
\* loop over the copy starts
ItemsShard(ns) ==
    /\ mainpc = "serve"
    /\ collectpc = "items"
    /\ ns \in pending
    /\ LET copy == [snapshot EXCEPT ![ns] = ShardItems(ns)]
           left == pending \ {ns}
       IN /\ snapshot' = copy
          /\ pending' = StillPending(copy, left)
          /\ collectpc' = AfterCopy(left)
    /\ UNCHANGED <<flagVars, procVars, registryVars, clusterVars, listed, ch,
                   snapCalls, previous, quiet>>

\* as ListFails, the client whose listing failed removed from the registry
ListFailsEvicts(ns) ==
    /\ mainpc = "serve"
    /\ collectpc = "range"
    /\ ns \in pending
    /\ listed' = [listed EXCEPT ![ns] = ListError]
    /\ pending' = AfterListError(ns)
    /\ clients' = Remove(ns)
    /\ UNCHANGED <<flagVars, procVars, calls, clusterVars, collectpc,
                   snapshot, ch, snapCalls, previous, quiet>>

\* Collect: list.Run() returns an error, a warning is logged and the loop
\* continues with the next client
ListFails(ns) ==
    /\ mainpc = "serve"
    /\ collectpc = "range"
    /\ ns \in pending
    /\ listed' = [listed EXCEPT ![ns] = ListError]
    /\ pending' = AfterListError(ns)
    /\ UNCHANGED <<flagVars, procVars, registryVars, clusterVars, collectpc,
                   snapshot, ch, snapCalls, previous, quiet>>

\* Collect: list.Run() returns the releases, the samples of each are sent
ListReturns(ns) ==
    /\ mainpc = "serve"
    /\ collectpc = "range"
    /\ ns \in pending
    /\ LET items == ListRun(snapshot[ns])
       IN \E latest \in [1..Len(items) ->
                            IF fetchLatest THEN LatestVersions ELSE {""}] :
            /\ listed' = [listed EXCEPT ![ns] =
                            [st |-> "ok", items |-> items, latest |-> latest]]
            /\ ch' = ch \o CollectItems(items, latest, infoMetric,
                                        timestampMetric)
    /\ pending' = pending \ {ns}
    /\ UNCHANGED <<flagVars, procVars, registryVars, clusterVars, collectpc,
                   snapshot, snapCalls, previous, quiet>>

\* Collect: list.Run() does not return; nothing in Collect bounds the call
ListHangs(ns) ==
    /\ mainpc = "serve"
    /\ collectpc = "range"
    /\ ns \in pending
    /\ collectpc' = "hung"
    /\ UNCHANGED <<flagVars, procVars, registryVars, clusterVars, snapshot,
                   pending, listed, ch, snapCalls, previous, quiet>>

\* Collect: the loop over the clients is over, Collect returns
CollectReturn ==
    /\ mainpc = "serve"
    /\ collectpc = "range"
    /\ pending = {}
    /\ collectpc' = "done"
    /\ UNCHANGED <<flagVars, procVars, registryVars, clusterVars, snapshot,
                   pending, listed, ch, snapCalls, previous, quiet>>

\* ------------------------------------------------------- specifications
Collect ==
    \/ \E ns \in Namespaces : ItemsShard(ns)
    \/ \E ns \in Namespaces : ListFails(ns)
    \/ \E ns \in Namespaces : ListReturns(ns)
    \/ CollectReturn

Next ==
    \/ MainInformer
    \/ MainStatic
    \/ MainConnect
    \/ MainServe
    \/ ConnectOK
    \/ ConnectFail
    \/ InformerRun
    \/ InformerFatal
    \/ \E ns \in Namespaces : AddFunc(ns)
    \/ \E ns \in Namespaces : DeleteFunc(ns)
    \/ Install(CommonReleaseIds)
    \/ Uninstall
    \/ CollectBegin
    \/ \E ns \in Namespaces : ItemsShard(ns)
    \/ \E ns \in Namespaces : ListFails(ns)
    \/ \E ns \in Namespaces : ListReturns(ns)
    \/ \E ns \in Namespaces : ListHangs(ns)
    \/ CollectReturn

Spec == Init /\ [][Next]_vars

\* the HTTP handler's goroutine runs Collect on whenever Collect can take a
\* step
FairSpec == Spec /\ WF_vars(Collect)

RECURSIVE ReleaseSets(_)
\* the sets of at most k releases, of any status, in any namespaces
ReleaseSets(k) ==
    IF k = 0 THEN {{}}
    ELSE ReleaseSets(k - 1)
         \cup {rs \cup {Release(i, ns)} :
                rs \in ReleaseSets(k - 1), i \in ReleaseIds, ns \in Namespaces}

\* the exporter starts with a list of namespaces and the info metric on, in
\* a cluster that holds releases of any status
InitStatus ==
    /\ InitExporter
    /\ namespaces # <<>>
    /\ infoMetric
    /\ releases \in ReleaseSets(MaxReleases)

NextStatus ==
    \/ MainStatic
    \/ MainConnect
    \/ MainServe
    \/ ConnectOK
    \/ ConnectFail
    \/ CollectBegin
    \/ \E ns \in Namespaces : ItemsShard(ns)
    \/ \E ns \in Namespaces : ListFails(ns)
    \/ \E ns \in Namespaces : ListReturns(ns)
    \/ \E ns \in Namespaces : ListHangs(ns)
    \/ CollectReturn

StatusSpec == InitStatus /\ [][NextStatus]_vars

\* ----------------------------------------------------------- properties
RevisionsName == "helm_chart_all_releases_total"
InfoName == "helm_chart_info"
TimestampName == "helm_chart_timestamp"

\* the namespace label value of a sample
SampleNamespace(s) == IF s.name = RevisionsName THEN s.labels[3] ELSE s.labels[6]

\* the samples of one metric sent for one namespace, in the order sent
SamplesOf(name, ns) ==
    SelectSeq(ch, LAMBDA s : s.name = name /\ SampleNamespace(s) = ns)

\* all the samples sent for one namespace, in the order sent
NamespaceSamples(ns) == SelectSeq(ch, LAMBDA s : SampleNamespace(s) = ns)

\* the namespaces of the snapshot Collect iterates
Snapshotted == {ns \in Namespaces : snapshot[ns] # NoClient}

\* C1: when Collect has returned, a namespace N of the snapshot whose
\* listing failed has not kept any other namespace M of the snapshot from
\* being listed, and M, if its listing succeeded, has exactly the samples
\* its own releases give, as if N's listing had succeeded.
C1_FaultIsolation ==
    collectpc = "done" =>
        \A n \in Snapshotted, m \in Snapshotted :
            (n # m /\ listed[n].st = "err") =>
                /\ listed[m].st \in {"ok", "err"}
                /\ listed[m].st = "ok" =>
                    NamespaceSamples(m) =
                        CollectItems(listed[m].items, listed[m].latest,
                                     infoMetric, timestampMetric)

C1_Witness ==
    /\ collectpc = "done"
    /\ \E n \in Snapshotted, m \in Snapshotted :
        /\ n # m
        /\ listed[n].st = "err"
        /\ listed[m].st = "ok"
        /\ Len(NamespaceSamples(m)) > 0
        /\ \E r \in releases : r.namespace = n

IsAdd(i, ns) == calls[i].op = "connect" /\ calls[i].ns = ns

\* calls[i] is a connect to ns that succeeded
IsAddOK(i, ns) == IsAdd(i, ns) /\ calls[i].ok

\* calls[i] is a remove of ns
IsRemove(i, ns) == calls[i].op = "remove" /\ calls[i].ns = ns

\* no add of ns has been handled since the scrape called clients.Items()
NoAddSinceItems(ns) ==
    \A l \in (snapCalls + 1)..Len(calls) : ~IsAdd(l, ns)

\* no add of ns has succeeded since the scrape called clients.Items()
NoAddOKSinceItems(ns) ==
    \A l \in (snapCalls + 1)..Len(calls) : ~IsAddOK(l, ns)

\* the first k calls hold an add of ns and then a remove of ns, and no add
\* of ns after that remove
AddedThenRemoved(ns, k) ==
    \E i \in 1..k, j \in 1..k :
        /\ i < j
        /\ calls[i].op = "connect" /\ calls[i].ns = ns
        /\ calls[j].op = "remove" /\ calls[j].ns = ns
        /\ \A l \in (j + 1)..k : ~(calls[l].op = "connect" /\ calls[l].ns = ns)

\* C3: a scrape that starts after an added event and then a removed event
\* for N have been handled, with no added event for N handled since, sends
\* no sample for N, whether or not the add connected and whatever was
\* scraped before.
C3_RegistryConvergence ==
    \A ns \in Namespaces :
        (/\ collectpc # "idle"
         /\ AddedThenRemoved(ns, snapCalls)
         /\ NoAddSinceItems(ns)) =>
            /\ snapshot[ns] = NoClient
            /\ Len(NamespaceSamples(ns)) = 0

C3_Witness ==
    /\ collectpc = "done"
    /\ previous.valid
    /\ \E ns \in Namespaces :
        /\ AddedThenRemoved(ns, snapCalls)
        /\ calls[1] = [op |-> "connect", ns |-> ns, ok |-> TRUE]
        /\ \E r \in releases : r.namespace = ns
        /\ Len(NamespaceSamples(ns)) = 0

\* the index in calls of the latest successful connect to ns, 0 without one
LastConnected(ns) ==
    LET ok == {i \in 1..Len(calls) :
                /\ calls[i].op = "connect"
                /\ calls[i].ns = ns
                /\ calls[i].ok}
    IN IF ok = {} THEN 0 ELSE CHOOSE i \in ok : \A j \in ok : j <= i

\* C9: the client the registry holds for a namespace is the one built by
\* the latest successful connect to that namespace; a successful connect to
\* a namespace that already has a client installs the new client in its
\* place.
C9_OverwriteOnReAdd ==
    \A ns \in Namespaces :
        /\ clients[ns] # NoClient =>
            /\ LastConnected(ns) # 0
            /\ clients[ns] = Client(LastConnected(ns), ns)
        /\ (LastConnected(ns) # 0 /\ LastConnected(ns) = Len(calls)) =>
            clients[ns] = Client(Len(calls), ns)

C9_Witness ==
    \E ns \in Namespaces :
        /\ Len(calls) = 2
        /\ calls[1] = [op |-> "connect", ns |-> ns, ok |-> TRUE]
        /\ calls[2] = [op |-> "connect", ns |-> ns, ok |-> TRUE]
        /\ clients[ns] = Client(2, ns)
        /\ informerpc = "run"

\* C10: handling a removed event for N leaves the registry without an entry
\* for N and every other entry as it was.
C10_UnconditionalRemove ==
    [][(/\ Len(calls') = Len(calls) + 1
        /\ calls'[Len(calls')].op = "remove")
       => LET ns == calls'[Len(calls')].ns
          IN /\ clients'[ns] = NoClient
             /\ \A m \in Namespaces \ {ns} : clients'[m] = clients[m]]_vars

\* a removed event for a namespace that never connected, another namespace
\* being registered
C10_Witness ==
    \E ns \in Namespaces, m \in Namespaces :
        /\ ns # m
        /\ calls = <<[op |-> "connect", ns |-> m, ok |-> TRUE],
                     [op |-> "remove", ns |-> ns, ok |-> TRUE]>>
        /\ clients[m] = Client(1, m)
        /\ clients[ns] = NoClient

\* C4: a listing call that does not return does not keep Collect from
\* going on to the other namespaces and returning.
C4_BoundedBlocking == (collectpc = "hung") ~> (collectpc = "done")

C6_Code(status) ==
    CASE status = "unknown" -> 0
      [] status = "deployed" -> 1
      [] status = "uninstalled" -> 2
      [] status = "superseded" -> 3
      [] status = "failed" -> 0 - 1
      [] status = "uninstalling" -> 5
      [] status = "pending-install" -> 6
      [] status = "pending-upgrade" -> 7
      [] status = "pending-rollback" -> 8
      [] OTHER -> 0

\* C6: with the info metric on, every listed release has one helm_chart_info
\* sample whose value is the code of the release's status, 0 for a status
\* the table does not hold, and all the samples of every release are sent.
C6_StatusMapping ==
    infoMetric =>
        \A n \in Snapshotted :
            listed[n].st = "ok" =>
                LET items == listed[n].items
                    sent == SamplesOf(InfoName, n)
                IN /\ Len(sent) = Len(items)
                   /\ \A i \in 1..Len(items) :
                        /\ sent[i].value = C6_Code(items[i].status)
                        /\ sent[i].labels[2] = items[i].name
                   /\ Len(NamespaceSamples(n)) =
                        Len(items) * (IF timestampMetric THEN 3 ELSE 2)

\* a failed release and one of a status outside the table, listed together
C6_Witness ==
    /\ collectpc = "done"
    /\ infoMetric
    /\ \E n \in Snapshotted :
        /\ listed[n].st = "ok"
        /\ Len(listed[n].items) = 2
        /\ listed[n].items[1].status = "failed"
        /\ listed[n].items[2].status = "pending"
        /\ SamplesOf(InfoName, n)[1].value = 0 - 1
        /\ SamplesOf(InfoName, n)[2].value = 0

\* C7: with the info metric off no helm_chart_info sample is sent, and the
\* samples sent for a listed namespace are those the same listing gives with
\* the info metric on, less the helm_chart_info samples.
C7_InfoToggle ==
    ~infoMetric =>
        /\ \A i \in 1..Len(ch) : ch[i].name # InfoName
        /\ \A n \in Snapshotted :
            listed[n].st = "ok" =>
                NamespaceSamples(n) =
                    SelectSeq(CollectItems(listed[n].items, listed[n].latest,
                                           TRUE, timestampMetric),
                              LAMBDA s : s.name # InfoName)

C7_Witness ==
    /\ collectpc = "done"
    /\ ~infoMetric
    /\ timestampMetric
    /\ \E n \in Snapshotted :
        /\ listed[n].st = "ok"
        /\ Len(listed[n].items) > 0
        /\ Len(SamplesOf(TimestampName, n)) = Len(listed[n].items)

\* C8, as claimed: a scrape that follows another with no watcher event and
\* no change of the releases since the first began sends the same samples,
\* the latestVersion values set aside.
C8_Idempotence ==
    (collectpc = "done" /\ previous.valid /\ quiet) =>
        SampleBag(ch) = previous.samples

\* C8, amended: a scrape that follows another with no watcher event and no
\* change of the releases since the first began, and in which the listing
\* fails for the same namespaces, sends the same samples, the latestVersion
\* values set aside.
C8_IdempotenceSameListings ==
    (/\ collectpc = "done"
     /\ previous.valid
     /\ quiet
     /\ Failed(listed) = previous.failed) =>
        SampleBag(ch) = previous.samples

C8_Witness ==
    /\ collectpc = "done"
    /\ previous.valid
    /\ quiet
    /\ Failed(listed) = previous.failed
    /\ Failed(listed) # {}
    /\ Len(ch) > 1
    /\ SampleBag(ch) = previous.samples

\* among the first k calls, an add of ns failed and no add of ns has
\* succeeded since
AddFailed(ns, k) ==
    \E i \in 1..k :
        /\ IsAdd(i, ns) /\ ~calls[i].ok
        /\ \A l \in (i + 1)..k : ~IsAddOK(l, ns)

\* as AddFailed, and ns had no entry when the add that failed arrived: every
\* add of ns that had succeeded before it was followed by a remove of ns
AddFailedWithoutEntry(ns, k) ==
    \E i \in 1..k :
        /\ IsAdd(i, ns) /\ ~calls[i].ok
        /\ \A l \in (i + 1)..k : ~IsAddOK(l, ns)
        /\ \A j \in 1..(i - 1) :
            IsAddOK(j, ns) => \E l \in (j + 1)..(i - 1) : IsRemove(l, ns)

\* C11, as claimed: with the informer, once an add of N has failed and until
\* an add of N succeeds, the registry holds no client for N and a scrape
\* that starts then sends no sample for N.
C11_FailedAddUnmonitored ==
    namespaces = <<>> =>
        \A ns \in Namespaces :
            /\ AddFailed(ns, Len(calls)) => clients[ns] = NoClient
            /\ (/\ collectpc # "idle"
                /\ AddFailed(ns, snapCalls)
                /\ NoAddOKSinceItems(ns)) =>
                /\ snapshot[ns] = NoClient
                /\ Len(NamespaceSamples(ns)) = 0

\* C11, amended: with the informer, once an add of N has failed while N had
\* no entry, and until an add of N succeeds, the registry holds no client
\* for N and a scrape that starts then sends no sample for N.
C11_FailedAddWithoutEntry ==
    namespaces = <<>> =>
        \A ns \in Namespaces :
            /\ AddFailedWithoutEntry(ns, Len(calls)) => clients[ns] = NoClient
            /\ (/\ collectpc # "idle"
                /\ AddFailedWithoutEntry(ns, snapCalls)
                /\ NoAddOKSinceItems(ns)) =>
                /\ snapshot[ns] = NoClient
                /\ Len(NamespaceSamples(ns)) = 0

\* an add that failed, then a scrape, the namespace holding a release
C11_Witness ==
    /\ namespaces = <<>>
    /\ collectpc = "done"
    /\ \E ns \in Namespaces :
        /\ snapCalls > 0
        /\ AddFailedWithoutEntry(ns, snapCalls)
        /\ \E r \in releases : r.namespace = ns
        /\ Len(NamespaceSamples(ns)) = 0
        /\ Len(ch) > 0

\* the namespaces of the list whose connect succeeded
StaticConnected ==
    {namespaces[i] : i \in {j \in 1..Len(calls) : calls[j].ok}}

\* C12: with a list of namespaces, the informer is never started, the
\* calls made are one connect per entry of the list, in order and all
\* before serving starts, and while serving the registry's keys are the
\* listed namespaces whose connect succeeded and the registry never changes.
C12_StaticMode ==
    /\ [](namespaces # <<>> =>
            /\ informerpc = "none"
            /\ Len(calls) <= Len(namespaces)
            /\ \A i \in 1..Len(calls) : IsAdd(i, namespaces[i])
            /\ mainpc # "serve" => collectpc = "idle"
            /\ mainpc = "serve" =>
                /\ Len(calls) = Len(namespaces)
                /\ connecting = ""
                /\ Keys(clients) = StaticConnected)
    /\ [][(namespaces # <<>> /\ mainpc = "serve") => clients' = clients]_vars

\* a list of two namespaces, the second connect failed, a scrape done
C12_Witness ==
    /\ Len(namespaces) = 2
    /\ namespaces[1] # namespaces[2]
    /\ mainpc = "serve"
    /\ collectpc = "done"
    /\ Len(calls) = 2
    /\ calls[1].ok
    /\ ~calls[2].ok
    /\ Keys(clients) = {namespaces[1]}
    /\ \E r \in releases : r.namespace = namespaces[2]
    /\ Len(ch) > 0

\* the registry after the first k calls
RECURSIVE RegistryAt(_)
RegistryAt(k) ==
    IF k = 0
    THEN [ns \in Namespaces |-> NoClient]
    ELSE LET before == RegistryAt(k - 1)
             call == calls[k]
         IN IF call.op = "remove"
            THEN [before EXCEPT ![call.ns] = NoClient]
            ELSE IF call.ok
                 THEN [before EXCEPT ![call.ns] = Client(k, call.ns)]
                 ELSE before

\* clients.Items() has returned in the scrape under way or just done
ItemsReturned == collectpc \in {"range", "hung", "done"}

\* C13: the pairs a scrape iterates over are the contents of the registry
\* at one instant during that scrape, between its call of clients.Items()
\* and now.
C13_PointInTimeSnapshot ==
    ItemsReturned => \E k \in snapCalls..Len(calls) : snapshot = RegistryAt(k)

\* what does hold of the copy: every pair is the registry's entry for that
\* namespace at the instant clients.Items() copied it, and once
\* clients.Items() has returned no set or remove changes the pairs of that
\* scrape or adds a namespace to those it still has to list
SnapshotPerNamespace ==
    [][/\ \A ns \in Namespaces :
            snapshot'[ns] # snapshot[ns] =>
                /\ ~(collectpc \in {"range", "hung"})
                /\ \/ snapshot'[ns] = clients[ns]
                   \/ collectpc # "items" /\ snapshot'[ns] = NoClient
       /\ collectpc \in {"range", "hung"} =>
            /\ snapshot' = snapshot
            /\ pending' \subseteq pending
            /\ \A ns \in Namespaces :
                listed'[ns] # NotListed => snapshot[ns] # NoClient
       /\ (collectpc = "done" /\ collectpc' = "done") =>
            snapshot' = snapshot /\ ch' = ch]_vars

\* client is one whose actionConfig.Init has returned nil: a call already
\* made is the connect to ns that built it, and that connect succeeded
Initialized(client, ns) ==
    /\ client.namespace = ns
    /\ client.id \in 1..Len(calls)
    /\ IsAddOK(client.id, ns)

\* C14: every client in the registry, and every client a scrape has read
\* from it, is one whose Init had returned nil before it was inserted; the
\* client whose Init is running, or has failed, is in neither.
C14_NoPartialEntry ==
    \A ns \in Namespaces :
        /\ clients[ns] # NoClient => Initialized(clients[ns], ns)
        /\ snapshot[ns] # NoClient => Initialized(snapshot[ns], ns)
        /\ listed[ns] # NotListed => Initialized(snapshot[ns], ns)

\* a scrape has listed the releases of a namespace with its client while
\* connect was building another client for that namespace
C14_Witness ==
    \E ns \in Namespaces :
        /\ connecting = ns
        /\ clients[ns] # NoClient
        /\ snapshot[ns] = clients[ns]
        /\ listed[ns] # NotListed
        /\ collectpc = "done"

\* C15: with the informer, an error of Init or KubernetesClientSet ends the
\* process, after which nothing runs any more; while the process serves
\* scrapes the informer is starting or running.
C15_FatalWatchStartup ==
    /\ informerpc = "exited" => (mainpc = "exited" /\ ~ENABLED Next)
    /\ (namespaces = <<>> /\ mainpc = "serve") => informerpc \in {"init", "run"}
    /\ namespaces # <<>> => informerpc = "none"

\* the process has ended in log.Fatal during a scrape
C15_Witness ==
    /\ namespaces = <<>>
    /\ informerpc = "exited"
    /\ mainpc = "exited"
    /\ collectpc = "range"

\* C16: while the informer runs, some step of the program stops it, after
\* which no event is handled and the stop channel is closed.
C16_WatcherCancellation ==
    (mainpc = "serve" /\ informerpc = "run") =>
        ENABLED (Next /\ informerpc' # "run" /\ mainpc' = "serve")

\* C17: no step of Collect, whether a listing succeeds or fails, changes
\* the registry; the registry changes only in a step that is a connect or a
\* remove made for an event or at startup, and so is at any time what the
\* connects and removes made so far have left.
C17_ScrapeReadOnly ==
    /\ [][collectVars' # collectVars => UNCHANGED registryVars]_vars
    /\ [][clients' # clients => Len(calls') = Len(calls) + 1]_vars
    /\ [](clients = RegistryAt(Len(calls)))

\* a scrape done, a listing failed, its client still in the registry
C17_Witness ==
    /\ collectpc = "done"
    /\ Len(ch) > 0
    /\ \E ns \in Namespaces :
        /\ listed[ns] = ListError
        /\ clients[ns] # NoClient
        /\ clients[ns] = snapshot[ns]

\* C18: a connect that fails leaves the registry as it was: no entry is
\* added, and the client an earlier connect installed for the namespace is
\* still there.
C18_FailedConnectKeepsRegistry ==
    [][(/\ Len(calls') = Len(calls) + 1
        /\ calls'[Len(calls')].op = "connect"
        /\ ~calls'[Len(calls')].ok) => clients' = clients]_vars

\* a connect succeeded, the next connect to that namespace failed, the
\* client of the first is registered
C18_Witness ==
    /\ Len(calls) = 2
    /\ \E ns \in Namespaces :
        /\ IsAddOK(1, ns)
        /\ IsAdd(2, ns) /\ ~calls[2].ok
        /\ clients[ns] = Client(1, ns)

\* the calls that decide whether ns has an entry: the connects to ns that
\* succeeded and the removes of ns
Deciding(ns) == {i \in 1..Len(calls) : IsAddOK(i, ns) \/ IsRemove(i, ns)}

\* the latest of a non-empty set of calls
Latest(S) == CHOOSE i \in S : \A j \in S : j <= i

\* C19: with the informer, a namespace has an entry exactly when the latest
\* of the successful adds and the removes of it is a successful add; the
\* entry of a namespace changes only in a successful add or a remove of
\* that namespace.
C19_Membership ==
    /\ [](namespaces = <<>> =>
            \A ns \in Namespaces :
                clients[ns] # NoClient <=>
                    /\ Deciding(ns) # {}
                    /\ IsAddOK(Latest(Deciding(ns)), ns))
    /\ [][namespaces = <<>> =>
            \A ns \in Namespaces :
                clients'[ns] # clients[ns] =>
                    /\ Len(calls') = Len(calls) + 1
                    /\ \/ IsAddOK(Len(calls), ns)'
                       \/ IsRemove(Len(calls), ns)']_vars

\* an add of a namespace succeeded and then another namespace was removed:
\* the first has its entry, the other has none
C19_Witness ==
    /\ namespaces = <<>>
    /\ \E ns \in Namespaces, other \in Namespaces :
        /\ other # ns
        /\ Len(calls) = 2
        /\ IsAddOK(1, ns)
        /\ IsRemove(2, other)
        /\ clients[ns] = Client(1, ns)
        /\ clients[other] = NoClient

====
